---- MODULE Spec2Model ----
(***************************************************************************)
(* Model of the streaming analysis pipeline of backend/app/services/       *)
(* analyzer.py (DataAnalyzer) as driven by backend/app/routers/analysis.py.*)
(*                                                                         *)
(* Every request owns one DataAnalyzer and one async generator             *)
(* (analyze_stream).  The generator contains no await: between two yields  *)
(* it runs synchronously on the event-loop thread.  A stage's DuckDB       *)
(* query is modelled by two steps (the query starts, the query returns)    *)
(* with the event loop held by the request in between.                     *)
(***************************************************************************)
EXTENDS Integers, Sequences, FiniteSets, TLC

\* ---------------------------------------------------------------- bounds
NumRequests == 2

Requests == 1..NumRequests
HandleIds == 1..NumRequests

\* ------------------------------------------------------------- constants
None == "None"
Idle == 0
NoCon == 0

\* AnalysisChunk.type for the five data stages, in the order of analyze_stream
Stages == <<"overview", "schema", "sample", "statistics", "nulls">>
NumStages == Len(Stages)
CompleteIdx == NumStages + 1
ErrorIdx == NumStages + 2

\* descriptions (str(e)) of the exceptions DuckDB raises
IOException == "IOException"
CatalogException == "CatalogException"
QueryError == "QueryError"

\* The files a request may name: suffix family, whether DuckDB can open or
\* read it, and (embedded-database files) the tables SHOW TABLES reports.
Files ==
    { [kind |-> "db",   openable |-> FALSE, tables |-> << >>],
      [kind |-> "db",   openable |-> TRUE,  tables |-> << >>],
      [kind |-> "db",   openable |-> TRUE,  tables |-> <<"events">>],
      [kind |-> "flat", openable |-> FALSE, tables |-> << >>],
      [kind |-> "flat", openable |-> TRUE,  tables |-> << >>] }

VARIABLES
    file,        \* file[r]: the file the request names (self.path)
    phase,       \* phase[r]: position of the generator of request r
    stage,       \* stage[r]: stage being run / index of the chunk last yielded
    con,         \* con[r]: self.con, a handle id or NoCon
    table_name,  \* table_name[r]: self.table_name
    handle,      \* handle[h]: state of DuckDB connection object h
    closes,      \* closes[h]: number of times close() ran on h
    stream,      \* stream[r]: chunks handed to the consumer so far
    consumer,    \* consumer[r]: "reading" or "cancelled"
    loop,        \* the request running on the event-loop thread, or Idle
    raised,      \* raised[r]: the exception caught by analyze_stream, or None
    failedStage, \* failedStage[r]: where it was raised (0 opening, 1..5), or -1
    returned,    \* returned[r]: stages whose get_* call returned normally
    table,       \* the working table the stage queries read (data-level runs)
    out,         \* chunks, with their payload, produced by a data-level run
    dstage,      \* number of stages the data-level run has completed
    engine,      \* the engine's choices in get_statistics: failures, tie order
    prev,        \* chunks and engine choices of an earlier run on the same file
    calls        \* calls[r]: number of _close_connection calls on analyzer r

vars == <<file, phase, stage, con, table_name, handle, closes,
          stream, consumer, loop, raised, failedStage, returned>>

\* the payload-level variables, and the call counter of the close-only runs
dvars == <<table, out, dstage, engine, prev>>
allvars == <<vars, dvars, calls>>

\* ------------------------------------------------------------ AnalysisChunk
\* Variant of DataChunk: the sample and schema stages carry each other's tag
DataChunk_Swapped(k) ==
    [type |-> Stages[IF k = 2 THEN 3 ELSE IF k = 3 THEN 2 ELSE k],
     message |-> None]

DataChunk(k) == [type |-> Stages[k], message |-> None]
CompleteChunk == [type |-> "complete", message |-> "Analysis complete"]

\* Variant of ErrorChunk: a fixed message instead of str(e)
ErrorChunk_Generic(e) == [type |-> "error", message |-> "Analysis failed"]

ErrorChunk(e) == [type |-> "error", message |-> e]

\* ------------------------------------------------------- _setup_connection
\* Variant of SetupConnection: the flat-file view is bound lazily, so a
\* missing file is not noticed by CREATE VIEW
SetupConnection_Lazy(f, showOk) ==
    IF f.kind = "db"
    THEN IF ~f.openable
         THEN [opened |-> FALSE, table |-> "data", error |-> IOException]
         ELSE IF ~showOk
         THEN [opened |-> TRUE, table |-> "data", error |-> QueryError]
         ELSE [opened |-> TRUE,
               table |-> IF f.tables # << >> THEN f.tables[1] ELSE "data",
               error |-> None]
    ELSE [opened |-> TRUE, table |-> "data", error |-> None]

\* Result of _setup_connection on file f: whether a connection object was
\* stored in self.con, the resulting self.table_name, and the exception
\* raised (None when it returns).  showOk: SHOW TABLES did not fail.
SetupConnection(f, showOk) ==
    IF f.kind = "db"
    THEN IF ~f.openable
         THEN [opened |-> FALSE, table |-> "data", error |-> IOException]
         ELSE IF ~showOk
         THEN [opened |-> TRUE, table |-> "data", error |-> QueryError]
         ELSE [opened |-> TRUE,
               table |-> IF f.tables # << >> THEN f.tables[1] ELSE "data",
               error |-> None]
    ELSE IF ~f.openable
         THEN [opened |-> TRUE, table |-> "data", error |-> IOException]
         ELSE [opened |-> TRUE, table |-> "data", error |-> None]

\* The relations that exist in the connection after _setup_connection
Relations(f) ==
    IF f.kind = "db" THEN {f.tables[i] : i \in 1..Len(f.tables)} ELSE {"data"}

\* -------------------------------------------------------- _close_connection
\* Variant of CloseHandles: close() is never called on the connection
CloseHandles_Leak(c, hs) == hs

\* New state of the connection objects after _close_connection with self.con = c
CloseHandles(c, hs) == IF c # NoCon THEN [hs EXCEPT ![c] = "closed"] ELSE hs
CloseCounts(c, cs) == IF c # NoCon THEN [cs EXCEPT ![c] = @ + 1] ELSE cs

\* Variant of CloseConnection: self.con is not reset to None after close()
CloseConnection_KeepCon(r) ==
    /\ handle' = CloseHandles(con[r], handle)
    /\ closes' = CloseCounts(con[r], closes)
    /\ con' = con

\* if self.con: self.con.close(); self.con = None
CloseConnection(r) ==
    /\ handle' = CloseHandles(con[r], handle)
    /\ closes' = CloseCounts(con[r], closes)
    /\ con' = [con EXCEPT ![r] = NoCon]

\* ------------------------------------------------------------- scheduling
\* The generator never awaits: a request can take a step only when the
\* event-loop thread is free or already running that request.
CanRun(r) == loop = Idle \/ loop = r

\* Variant of NewHandle: one module-level connection shared by all analyzers
NewHandle_Shared(r) == 1

\* The connection object returned by the connect() call of request r: an
\* analyzer calls connect() at most once, so the call identifies the object.
NewHandle(r) == r

\* Variant of OnRaise: the exception is swallowed (except Exception: pass)
OnRaise_Swallow(s, e) == s

\* except Exception as e: yield the error chunk
OnRaise(s, e) == Append(s, ErrorChunk(e))

\* A table without columns and rows
EmptyTable == [cols |-> << >>, rows |-> << >>]

\* No data-level run is in progress
NoEngine == [fail |-> << >>, pick |-> "low"]
\* No earlier run on the same file
NoRun == [out |-> << >>, engine |-> NoEngine]
DataIdle ==
    /\ table = EmptyTable /\ out = << >> /\ dstage = 0 /\ engine = NoEngine
    /\ prev = NoRun

\* --------------------------------------------------------------------- Init
Init ==
    /\ file \in [Requests -> Files]
    /\ phase = [r \in Requests |-> "created"]
    /\ stage = [r \in Requests |-> 0]
    /\ con = [r \in Requests |-> NoCon]
    /\ table_name = [r \in Requests |-> "data"]
    /\ handle = [h \in HandleIds |-> "unused"]
    /\ closes = [h \in HandleIds |-> 0]
    /\ stream = [r \in Requests |-> << >>]
    /\ consumer = [r \in Requests |-> "reading"]
    /\ loop = Idle
    /\ raised = [r \in Requests |-> None]
    /\ failedStage = [r \in Requests |-> -1]
    /\ returned = [r \in Requests |-> {}]
    /\ DataIdle
    /\ calls = [r \in Requests |-> 0]

\* ------------------------------------------------------------------ actions
\* First resumption of the generator: _setup_connection runs; when it
\* returns, get_overview's queries start; when it raises, the except clause
\* yields the error chunk.
Start(r) ==
    /\ phase[r] = "created"
    /\ consumer[r] = "reading"
    /\ CanRun(r)
    /\ \E showOk \in BOOLEAN :
         LET s == SetupConnection(file[r], showOk)
             h == NewHandle(r)
         IN /\ IF s.opened
               THEN /\ con' = [con EXCEPT ![r] = h]
                    /\ handle' = [handle EXCEPT ![h] = "open"]
               ELSE UNCHANGED <<con, handle>>
            /\ table_name' = [table_name EXCEPT ![r] = s.table]
            /\ IF s.error = None
               THEN /\ phase' = [phase EXCEPT ![r] = "query"]
                    /\ stage' = [stage EXCEPT ![r] = 1]
                    /\ loop' = r
                    /\ UNCHANGED <<stream, raised, failedStage>>
               ELSE /\ phase' = [phase EXCEPT ![r] = "suspended"]
                    /\ stage' = [stage EXCEPT ![r] = ErrorIdx]
                    /\ stream' = [stream EXCEPT ![r] = OnRaise(@, s.error)]
                    /\ raised' = [raised EXCEPT ![r] = s.error]
                    /\ failedStage' = [failedStage EXCEPT ![r] = 0]
                    /\ loop' = Idle
    /\ UNCHANGED <<file, closes, consumer, returned>>

\* Variant of StageReturn: batch design, a stage's chunk is buffered and the
\* next stage's queries start in the same resumption
StageReturn_Batch(r) ==
    /\ phase[r] = "query"
    /\ loop = r
    /\ \E e \in (IF table_name[r] \in Relations(file[r])
                 THEN {None, QueryError} ELSE {CatalogException}) :
         IF e = None
         THEN /\ stream' = [stream EXCEPT ![r] = Append(@, DataChunk(stage[r]))]
              /\ returned' = [returned EXCEPT ![r] = @ \cup {stage[r]}]
              /\ IF stage[r] < NumStages
                 THEN /\ stage' = [stage EXCEPT ![r] = @ + 1]
                      /\ UNCHANGED <<phase, loop>>
                 ELSE /\ phase' = [phase EXCEPT ![r] = "suspended"]
                      /\ loop' = Idle
                      /\ UNCHANGED stage
              /\ UNCHANGED <<raised, failedStage>>
         ELSE /\ stream' = [stream EXCEPT ![r] = OnRaise(@, e)]
              /\ stage' = [stage EXCEPT ![r] = ErrorIdx]
              /\ raised' = [raised EXCEPT ![r] = e]
              /\ failedStage' = [failedStage EXCEPT ![r] = stage[r]]
              /\ phase' = [phase EXCEPT ![r] = "suspended"]
              /\ loop' = Idle
              /\ UNCHANGED returned
    /\ UNCHANGED <<file, con, table_name, handle, closes, consumer>>

\* Variant of StageReturn: every stage method closes the connection when it
\* is done
StageReturn_CloseEach(r) ==
    /\ phase[r] = "query"
    /\ loop = r
    /\ \E e \in (IF table_name[r] \in Relations(file[r])
                 THEN {None, QueryError} ELSE {CatalogException}) :
         IF e = None
         THEN /\ stream' = [stream EXCEPT ![r] = Append(@, DataChunk(stage[r]))]
              /\ returned' = [returned EXCEPT ![r] = @ \cup {stage[r]}]
              /\ UNCHANGED <<stage, raised, failedStage>>
         ELSE /\ stream' = [stream EXCEPT ![r] = OnRaise(@, e)]
              /\ stage' = [stage EXCEPT ![r] = ErrorIdx]
              /\ raised' = [raised EXCEPT ![r] = e]
              /\ failedStage' = [failedStage EXCEPT ![r] = stage[r]]
              /\ UNCHANGED returned
    /\ CloseConnection(r)
    /\ phase' = [phase EXCEPT ![r] = "suspended"]
    /\ loop' = Idle
    /\ UNCHANGED <<file, table_name, consumer>>

\* Variant of StageReturn: every stage has its own try/except that skips a
\* failed stage instead of ending the stream
StageReturn_Continue(r) ==
    /\ phase[r] = "query"
    /\ loop = r
    /\ \E e \in (IF table_name[r] \in Relations(file[r])
                 THEN {None, QueryError} ELSE {CatalogException}) :
         IF e = None
         THEN /\ stream' = [stream EXCEPT ![r] = Append(@, DataChunk(stage[r]))]
              /\ returned' = [returned EXCEPT ![r] = @ \cup {stage[r]}]
              /\ UNCHANGED <<stage, raised, failedStage>>
         ELSE UNCHANGED <<stream, stage, raised, failedStage, returned>>
    /\ phase' = [phase EXCEPT ![r] = "suspended"]
    /\ loop' = Idle
    /\ UNCHANGED <<file, con, table_name, handle, closes, consumer>>

\* The queries of the running stage return: the stage's chunk is yielded,
\* or the exception is caught and the error chunk is yielded.
StageReturn(r) ==
    /\ phase[r] = "query"
    /\ loop = r
    /\ \E e \in (IF table_name[r] \in Relations(file[r])
                 THEN {None, QueryError} ELSE {CatalogException}) :
         IF e = None
         THEN /\ stream' = [stream EXCEPT ![r] = Append(@, DataChunk(stage[r]))]
              /\ returned' = [returned EXCEPT ![r] = @ \cup {stage[r]}]
              /\ UNCHANGED <<stage, raised, failedStage>>
         ELSE /\ stream' = [stream EXCEPT ![r] = OnRaise(@, e)]
              /\ stage' = [stage EXCEPT ![r] = ErrorIdx]
              /\ raised' = [raised EXCEPT ![r] = e]
              /\ failedStage' = [failedStage EXCEPT ![r] = stage[r]]
              /\ UNCHANGED returned
    /\ phase' = [phase EXCEPT ![r] = "suspended"]
    /\ loop' = Idle
    /\ UNCHANGED <<file, con, table_name, handle, closes, consumer>>

\* The consumer asks for the next chunk after a data chunk other than the
\* last: the next stage's queries start.
Resume(r) ==
    /\ phase[r] = "suspended"
    /\ consumer[r] = "reading"
    /\ CanRun(r)
    /\ stage[r] \in 1..(NumStages - 1)
    /\ phase' = [phase EXCEPT ![r] = "query"]
    /\ stage' = [stage EXCEPT ![r] = @ + 1]
    /\ loop' = r
    /\ UNCHANGED <<file, con, table_name, handle, closes, stream,
                   consumer, raised, failedStage, returned>>

\* The consumer asks for the next chunk after the nulls chunk: the
\* complete chunk is yielded.
YieldComplete(r) ==
    /\ phase[r] = "suspended"
    /\ consumer[r] = "reading"
    /\ CanRun(r)
    /\ stage[r] = NumStages
    /\ stream' = [stream EXCEPT ![r] = Append(@, CompleteChunk)]
    /\ stage' = [stage EXCEPT ![r] = CompleteIdx]
    /\ UNCHANGED <<file, phase, con, table_name, handle, closes,
                   consumer, loop, raised, failedStage, returned>>

\* Variant of Finish: the connection is closed at the end of the try block
\* (after the complete chunk) instead of in a finally clause
Finish_CloseOnSuccess(r) ==
    /\ phase[r] = "suspended"
    /\ consumer[r] = "reading"
    /\ CanRun(r)
    /\ stage[r] \in {CompleteIdx, ErrorIdx}
    /\ IF stage[r] = CompleteIdx
       THEN CloseConnection(r)
       ELSE UNCHANGED <<con, handle, closes>>
    /\ phase' = [phase EXCEPT ![r] = "done"]
    /\ UNCHANGED <<file, stage, table_name, stream, consumer, loop,
                   raised, failedStage, returned>>

\* The consumer asks for the next chunk after a terminal chunk: the finally
\* clause runs and the generator ends.
Finish(r) ==
    /\ phase[r] = "suspended"
    /\ consumer[r] = "reading"
    /\ CanRun(r)
    /\ stage[r] \in {CompleteIdx, ErrorIdx}
    /\ CloseConnection(r)
    /\ phase' = [phase EXCEPT ![r] = "done"]
    /\ UNCHANGED <<file, stage, table_name, stream, consumer, loop,
                   raised, failedStage, returned>>

\* The consumer stops reading (client disconnect): it can only be noticed
\* while the generator is not running, i.e. before its first resumption or
\* at a yield.
Cancel(r) ==
    /\ phase[r] \in {"created", "suspended"}
    /\ consumer[r] = "reading"
    /\ CanRun(r)
    /\ consumer' = [consumer EXCEPT ![r] = "cancelled"]
    /\ UNCHANGED <<file, phase, stage, con, table_name, handle, closes,
                   stream, loop, raised, failedStage, returned>>

\* Variant of Finalize: closing the abandoned generator runs no cleanup
Finalize_NoCleanup(r) ==
    /\ phase[r] \in {"created", "suspended"}
    /\ consumer[r] = "cancelled"
    /\ CanRun(r)
    /\ phase' = [phase EXCEPT ![r] = "done"]
    /\ UNCHANGED <<file, stage, con, table_name, handle, closes, stream,
                   consumer, loop, raised, failedStage, returned>>

\* The abandoned generator is closed: GeneratorExit is raised at the yield
\* it is suspended at, which except Exception does not catch, and the
\* finally clause runs.  A generator that never started runs no code.
Finalize(r) ==
    /\ phase[r] \in {"created", "suspended"}
    /\ consumer[r] = "cancelled"
    /\ CanRun(r)
    /\ IF phase[r] = "suspended"
       THEN CloseConnection(r)
       ELSE UNCHANGED <<con, handle, closes>>
    /\ phase' = [phase EXCEPT ![r] = "done"]
    /\ UNCHANGED <<file, stage, table_name, stream, consumer, loop,
                   raised, failedStage, returned>>

Next ==
    /\ \E r \in Requests :
          \/ Start(r)
          \/ StageReturn(r)
          \/ Resume(r)
          \/ YieldComplete(r)
          \/ Finish(r)
          \/ Cancel(r)
          \/ Finalize(r)
    /\ UNCHANGED <<dvars, calls>>

Spec == Init /\ [][Next]_vars

\* Blocking queries return, and the event loop closes abandoned generators.
FairSpec ==
    Spec /\ \A r \in Requests : WF_vars(StageReturn(r)) /\ WF_vars(Finalize(r))

\* ------------------------------------------------------------------- types
TypeOK ==
    /\ file \in [Requests -> Files]
    /\ phase \in [Requests -> {"created", "query", "suspended", "done"}]
    /\ stage \in [Requests -> 0..ErrorIdx]
    /\ con \in [Requests -> HandleIds \cup {NoCon}]
    /\ handle \in [HandleIds -> {"unused", "open", "closed"}]
    /\ closes \in [HandleIds -> Nat]
    /\ consumer \in [Requests -> {"reading", "cancelled"}]
    /\ loop \in Requests \cup {Idle}

\* ------------------------------------------------------- derived notions
Types(s) == [i \in 1..Len(s) |-> s[i].type]
Terminal == {"complete", "error"}
FullSequence == Stages \o <<"complete">>
IsPrefix(a, b) == Len(a) <= Len(b) /\ SubSeq(b, 1, Len(a)) = a

\* the generator has ended and the consumer never stopped reading
ReadToEnd(r) == phase[r] = "done" /\ consumer[r] = "reading"
\* the generator has run its first resumption
Started(r) == stage[r] # 0
ErrorEmitted(r) == \E i \in 1..Len(stream[r]) : stream[r][i].type = "error"
CompleteEmitted(r) == \E i \in 1..Len(stream[r]) : stream[r][i].type = "complete"
\* the request holds no connection and the object it opened is not open
ConnectionClosed(r) == con[r] = NoCon /\ handle[NewHandle(r)] # "open"

\* ------------------------------------------------------------------ claims

\* C1: when the source opens, no stage raises and the consumer reads to the
\* end, the chunk types are exactly overview, schema, sample, statistics,
\* nulls, complete, each once and in that order; until then the stream is
\* a prefix of that sequence.
C1_FixedOrder ==
    \A r \in Requests :
        raised[r] = None =>
            /\ IsPrefix(Types(stream[r]), FullSequence)
            /\ ReadToEnd(r) => Types(stream[r]) = FullSequence

C1_Witness ==
    \E r \in Requests :
        ReadToEnd(r) /\ raised[r] = None /\ Len(stream[r]) = Len(FullSequence)

\* C2: a run read to the end contains exactly one terminal chunk (complete
\* or error, never both) and that chunk is the last one of the stream.
C2_OneTerminalLast ==
    \A r \in Requests :
        ReadToEnd(r) =>
            /\ Len(stream[r]) >= 1
            /\ stream[r][Len(stream[r])].type \in Terminal
            /\ \A i \in 1..(Len(stream[r]) - 1) : stream[r][i].type \notin Terminal

C2_Witness ==
    \E r, q \in Requests :
        /\ ReadToEnd(r) /\ CompleteEmitted(r)
        /\ ReadToEnd(q) /\ ErrorEmitted(q) /\ failedStage[q] = 3

\* C3: when stage k raises, the stream is the data chunks of the stages
\* before k in order, then one error chunk whose message is the description
\* of the exception; no chunk of stage k or of a later stage is emitted.
C3_ErrorAfterPrefix ==
    \A r \in Requests :
        failedStage[r] \in 1..NumStages =>
            /\ Types(stream[r]) =
                   SubSeq(Stages, 1, failedStage[r] - 1) \o <<"error">>
            /\ raised[r] # None
            /\ stream[r][Len(stream[r])].message = raised[r]

C3_Witness ==
    \E r \in Requests :
        /\ failedStage[r] = 4 /\ raised[r] = QueryError
        /\ Len(stream[r]) = 4 /\ ReadToEnd(r)

\* C4 (as stated): in every state in which an error chunk has been emitted
\* no further chunk is emitted and the request's connection is closed.
C4_Original ==
    /\ [](\A r \in Requests : ErrorEmitted(r) => ConnectionClosed(r))
    /\ [][\A r \in Requests : ErrorEmitted(r) => stream'[r] = stream[r]]_vars

\* C4 (amended): once an error chunk has been emitted no further chunk is
\* ever emitted, and once the generator has ended (the consumer asked for
\* the next chunk, or the abandoned generator was closed) the request's
\* connection is closed.
C4_Amended ==
    /\ [](\A r \in Requests :
            (ErrorEmitted(r) /\ phase[r] = "done") => ConnectionClosed(r))
    /\ [][\A r \in Requests : ErrorEmitted(r) => stream'[r] = stream[r]]_vars

C4_Witness ==
    \E r \in Requests :
        /\ ErrorEmitted(r) /\ phase[r] = "done"
        /\ handle[NewHandle(r)] = "closed" /\ con[r] = NoCon

\* C5: whenever a complete chunk has been emitted, the five data chunks
\* were emitted before it in order, each by a stage that returned normally.
C5_CompleteMeansAllStages ==
    \A r \in Requests :
        CompleteEmitted(r) =>
            /\ Types(stream[r]) = FullSequence
            /\ returned[r] = 1..NumStages
            /\ raised[r] = None

C5_Witness ==
    \E r \in Requests : CompleteEmitted(r) /\ phase[r] = "suspended"

\* C6: on every exit path every connection object the request opened is
\* closed exactly once: not open once the generator has ended, and close()
\* never runs twice on it.
C6_ClosedExactlyOnce ==
    \A r \in Requests :
        LET h == NewHandle(r) IN
        /\ closes[h] <= 1
        /\ handle[h] = "closed" <=> closes[h] = 1
        /\ phase[r] = "done" =>
              /\ con[r] = NoCon
              /\ handle[h] # "open"
              /\ handle[h] = "unused" => closes[h] = 0

C6_Witness ==
    \E r, q \in Requests :
        /\ phase[r] = "done" /\ consumer[r] = "cancelled"
        /\ handle[NewHandle(r)] = "closed" /\ closes[NewHandle(r)] = 1
        /\ ReadToEnd(q) /\ failedStage[q] = 0
        /\ handle[NewHandle(q)] = "closed" /\ closes[NewHandle(q)] = 1

\* the consumer stopped reading after a data chunk, before a terminal chunk
CancelledAfterData(r) ==
    consumer[r] = "cancelled" /\ stage[r] \in 1..NumStages

\* C7: if the consumer stops reading after a data chunk and before a
\* terminal chunk, the request's connection is eventually closed, and stays
\* closed, although no complete or error chunk is emitted: no cancellation
\* point leaves the handle open forever.
C7_CancelledClosesEventually ==
    <>[](\A r \in Requests :
            CancelledAfterData(r) =>
                /\ phase[r] = "done"
                /\ ConnectionClosed(r)
                /\ handle[NewHandle(r)] = "closed"
                /\ ~ErrorEmitted(r) /\ ~CompleteEmitted(r))

C7_Witness ==
    \E r \in Requests :
        /\ consumer[r] = "cancelled" /\ phase[r] = "done"
        /\ Types(stream[r]) = <<"overview", "schema">>
        /\ handle[NewHandle(r)] = "closed" /\ con[r] = NoCon

\* C8: when the opening step fails (either branch of _setup_connection) the
\* stream is exactly one error chunk, with no data chunk before or after.
C8_OpeningFailureSingleError ==
    \A r \in Requests :
        /\ (Started(r) /\ ~file[r].openable) => failedStage[r] = 0
        /\ failedStage[r] = 0 =>
              /\ Types(stream[r]) = <<"error">>
              /\ stream[r][1].message = raised[r]
              /\ returned[r] = {}

C8_Witness ==
    \E r, q \in Requests :
        /\ file[r].kind = "db" /\ ~file[r].openable /\ ReadToEnd(r)
        /\ file[q].kind = "flat" /\ ~file[q].openable /\ ReadToEnd(q)
        /\ Len(stream[r]) = 1 /\ Len(stream[q]) = 1

\* C9 (as stated): opening an embedded-database file without tables fails
\* in the opening step with EmptySourceError, no stage query is run against
\* a missing table, and the failure is the single error chunk of the stream.
C9_EmptySourceError ==
    \A r \in Requests :
        (file[r].kind = "db" /\ file[r].openable /\ file[r].tables = << >>
            /\ Started(r)) =>
            /\ phase[r] # "query"
            /\ failedStage[r] = 0
            /\ Types(stream[r]) = <<"error">>
            /\ (raised[r] = "EmptySourceError" \/ raised[r] = QueryError)

\* C10 (as stated): while one request's stage query is running, every other
\* request that is not finished can still take a step.
C10_QueryDoesNotBlock ==
    \A r, q \in Requests :
        (r # q /\ phase[r] = "query" /\ phase[q] \in {"created", "suspended"})
            => CanRun(q)

\* The chunks a request with the same outcomes (the stage that raised and
\* its exception, if any) produces when it is the only request
AloneChunks(fs, e) ==
    IF fs = -1
    THEN [k \in 1..NumStages |-> DataChunk(k)] \o <<CompleteChunk>>
    ELSE [k \in 1..(IF fs = 0 THEN 0 ELSE fs - 1) |-> DataChunk(k)]
             \o <<ErrorChunk(e)>>

\* C11: with concurrent requests (also on the same file) and any
\* interleaving of their stages, no connection is held by two requests, a
\* connection a request holds is open (no other request's close closed it),
\* and each request's chunk sequence is the one it produces when run alone.
C11_Isolation ==
    \A r \in Requests :
        /\ \A q \in Requests \ {r} : con[r] # NoCon => con[q] # con[r]
        /\ con[r] # NoCon => handle[con[r]] = "open"
        /\ IsPrefix(stream[r], AloneChunks(failedStage[r], raised[r]))

C11_Witness ==
    \E r, q \in Requests :
        /\ r # q /\ file[r] = file[q]
        /\ phase[r] = "done" /\ handle[NewHandle(r)] = "closed"
        /\ Len(stream[r]) >= 2
        /\ con[q] # NoCon /\ handle[con[q]] = "open" /\ Len(stream[q]) >= 2

\* ======================================================================
\* Payload of the stages: get_overview, get_schema, get_sample_data,
\* get_statistics and get_null_analysis as functions of the working table.
\* The working table is not modified while a run reads it.
\* ======================================================================

\* ---------------------------------------------------------------- bounds
\* tables of the data-level runs have at most MaxCols columns and at most
\* MaxCells cells
MaxCols == 2
MaxCells == 4
\* tables longer than the sample limit have up to MaxLongRows rows
MaxLongRows == 12

\* get_sample_data(limit=10)
SampleLimit == 10

\* Declared types as DuckDB reports them (upper case), as character
\* sequences so that the substring tests of get_statistics can be computed
T_INTEGER == <<"I", "N", "T", "E", "G", "E", "R">>
T_DOUBLE == <<"D", "O", "U", "B", "L", "E">>
T_DECIMAL == <<"D", "E", "C", "I", "M", "A", "L", "(", "4", ",", "2", ")">>
T_VARCHAR == <<"V", "A", "R", "C", "H", "A", "R">>
T_BOOLEAN == <<"B", "O", "O", "L", "E", "A", "N">>
T_DATE == <<"D", "A", "T", "E">>
T_TIMESTAMP == <<"T", "I", "M", "E", "S", "T", "A", "M", "P">>
T_INTERVAL == <<"I", "N", "T", "E", "R", "V", "A", "L">>
T_INTEGER_LIST == <<"I", "N", "T", "E", "G", "E", "R", "[", "]">>

\* The declared types of the model: the type family, the Python type of
\* the values fetchall() returns, and the text of two values in increasing
\* order
DeclaredTypes ==
    { [name |-> T_INTEGER, family |-> "integer", py |-> "int",
       vals |-> <<"1", "2">>],
      [name |-> T_DOUBLE, family |-> "float", py |-> "float",
       vals |-> <<"1.5", "2.5">>],
      [name |-> T_DECIMAL, family |-> "decimal", py |-> "Decimal",
       vals |-> <<"1.10", "2.20">>],
      [name |-> T_VARCHAR, family |-> "text", py |-> "str",
       vals |-> <<"a", "b">>],
      [name |-> T_BOOLEAN, family |-> "boolean", py |-> "bool",
       vals |-> <<"False", "True">>],
      [name |-> T_DATE, family |-> "temporal", py |-> "date",
       vals |-> <<"2024-01-01", "2024-01-02">>],
      [name |-> T_TIMESTAMP, family |-> "temporal", py |-> "datetime",
       vals |-> <<"2024-01-01 00:00:00", "2024-01-02 00:00:00">>],
      [name |-> T_INTERVAL, family |-> "interval", py |-> "timedelta",
       vals |-> <<"1 day, 0:00:00", "2 days, 0:00:00">>],
      [name |-> T_INTEGER_LIST, family |-> "composite", py |-> "list",
       vals |-> <<"[1]", "[2]">>] }

TypeOf(dtype) == CHOOSE d \in DeclaredTypes : d.name = dtype

\* one type per statistic profile, for tables of several columns
CoreTypes == {T_INTEGER, T_VARCHAR, T_DATE}

\* A cell as fetchall() returns it: SQL NULL is Python None
NULL == [kind |-> "NoneType", v |-> "None"]
Cell(dtype, i) ==
    IF i = 0 THEN NULL
    ELSE [kind |-> TypeOf(dtype).py, v |-> TypeOf(dtype).vals[i]]

ColName(i) == "col" \o ToString(i)
Column(i, dtype) == [name |-> ColName(i), dtype |-> dtype, null |-> "YES"]

Min2(a, b) == IF a <= b THEN a ELSE b

\* The shapes (columns, rows) of the enumerated tables
Shapes ==
    {sh \in (0..MaxCols) \X (0..MaxCells) :
        sh[1] * sh[2] <= MaxCells /\ (sh[1] = 0 => sh[2] <= 1)}

TablesOfShape(c, n) ==
    { [cols |-> [j \in 1..c |-> Column(j, ty[j])],
       rows |-> [i \in 1..n |-> [j \in 1..c |-> Cell(ty[j], ce[i][j])]]] :
        ty \in [1..c -> IF c = 1 THEN {d.name : d \in DeclaredTypes}
                        ELSE CoreTypes],
        ce \in [1..n -> [1..c -> 0..2]] }

\* One-column tables with more rows than the sample limit
LongTables ==
    { [cols |-> <<Column(1, T_INTEGER)>>,
       rows |-> [i \in 1..n |-> <<Cell(T_INTEGER, i % 3)>>]] :
        n \in (SampleLimit - 1)..MaxLongRows }

Tables == LongTables \cup UNION {TablesOfShape(sh[1], sh[2]) : sh \in Shapes}

\* ---------------------------------------------------------------- queries
\* DESCRIBE table_name
Describe(t) == t.cols
\* SELECT COUNT(*) FROM table_name
CountRows(t) == Len(t.rows)
\* the values of column j, in row order
ColumnCells(t, j) == [i \in 1..Len(t.rows) |-> t.rows[i][j]]
\* SELECT COUNT(*) FROM table_name WHERE col IS NULL
CountNull(t, j) == Cardinality({i \in 1..Len(t.rows) : t.rows[i][j] = NULL})
\* the distinct non-null values of column j
NonNullValues(t, j) == {t.rows[i][j].v : i \in {k \in 1..Len(t.rows) : t.rows[k][j] # NULL}}

\* ------------------------------------------------------------ get_overview
\* Variant of GetOverview: the columns are counted on the first row
GetOverview_FromRows(t) ==
    [row_count |-> CountRows(t),
     column_count |-> IF t.rows = << >> THEN 0 ELSE Len(t.rows[1])]

\* (file_name, file_size_bytes and file_type come from the path, not from
\* the table, and are left out)
GetOverview(t) ==
    [row_count |-> CountRows(t), column_count |-> Len(Describe(t))]

\* -------------------------------------------------------------- get_schema
GetSchema(t) ==
    [columns |-> [j \in 1..Len(Describe(t)) |->
        [name |-> Describe(t)[j].name,
         dtype |-> Describe(t)[j].dtype,
         nullable |-> (Describe(t)[j].null = "YES")]]]

\* --------------------------------------------------------- get_sample_data
\* Variant of Normalize: every non-null value is converted with str()
Normalize_AllText(val) ==
    IF val = NULL THEN NULL ELSE [kind |-> "str", v |-> val.v]

\* The conversion of one cell to a JSON-serializable value; str(val) keeps
\* the text of the value and makes it a Python str
Normalize(val) ==
    IF val = NULL THEN NULL
    ELSE IF val.kind \in {"int", "float", "str", "bool"} THEN val
    ELSE [kind |-> "str", v |-> val.v]

\* Variant of GetSampleData: the rows are read without LIMIT
GetSampleData_NoLimit(t, limit) ==
    [columns |-> [j \in 1..Len(Describe(t)) |-> Describe(t)[j].name],
     rows |-> [i \in 1..Len(t.rows) |->
                 [j \in 1..Len(t.rows[i]) |-> Normalize(t.rows[i][j])]]]

\* SELECT * FROM table_name LIMIT limit, then the conversion of every cell
GetSampleData(t, limit) ==
    [columns |-> [j \in 1..Len(Describe(t)) |-> Describe(t)[j].name],
     rows |-> [i \in 1..Min2(limit, Len(t.rows)) |->
                 [j \in 1..Len(t.rows[i]) |-> Normalize(t.rows[i][j])]]]

\* ---------------------------------------------------------- get_statistics
\* t in col_type, for a token t
Contains(str, tok) ==
    \E i \in 1..(Len(str) - Len(tok) + 1) :
        SubSeq(str, i, i + Len(tok) - 1) = tok

\* the numeric type names of get_statistics
NumericTokens ==
    { <<"I", "N", "T">>,
      <<"B", "I", "G", "I", "N", "T">>,
      <<"S", "M", "A", "L", "L", "I", "N", "T">>,
      <<"T", "I", "N", "Y", "I", "N", "T">>,
      <<"F", "L", "O", "A", "T">>,
      <<"D", "O", "U", "B", "L", "E">>,
      <<"D", "E", "C", "I", "M", "A", "L">>,
      <<"N", "U", "M", "E", "R", "I", "C">>,
      <<"R", "E", "A", "L">>,
      <<"H", "U", "G", "E", "I", "N", "T">>,
      <<"U", "B", "I", "G", "I", "N", "T">>,
      <<"U", "I", "N", "T", "E", "G", "E", "R">>,
      <<"U", "S", "M", "A", "L", "L", "I", "N", "T">>,
      <<"U", "T", "I", "N", "Y", "I", "N", "T">> }

\* the date/time type names of get_statistics
TemporalTokens ==
    { <<"D", "A", "T", "E">>,
      <<"T", "I", "M", "E">>,
      <<"T", "I", "M", "E", "S", "T", "A", "M", "P">> }

IsNumeric(dtype) == \E tok \in NumericTokens : Contains(dtype, tok)
IsTemporal(dtype) == \E tok \in TemporalTokens : Contains(dtype, tok)

\* None for the int | None fields
NoneInt == 0 - 1

\* position of a value in the order of its type
Ord(dtype, v) == CHOOSE i \in 1..Len(TypeOf(dtype).vals) : TypeOf(dtype).vals[i] = v

\* MIN and MAX of column j as text (None for a column without values)
MinText(t, j) ==
    LET vs == NonNullValues(t, j) d == Describe(t)[j].dtype IN
    IF vs = {} THEN None
    ELSE CHOOSE v \in vs : \A w \in vs : Ord(d, v) <= Ord(d, w)
MaxText(t, j) ==
    LET vs == NonNullValues(t, j) d == Describe(t)[j].dtype IN
    IF vs = {} THEN None
    ELSE CHOOSE v \in vs : \A w \in vs : Ord(d, v) >= Ord(d, w)

\* AVG, STDDEV, MEDIAN, QUANTILE_CONT: a double, or NULL for a column
\* without values (the value itself is the engine's)
DoubleAggregate(t, j) == IF NonNullValues(t, j) = {} THEN None ELSE "double"

\* occurrences of value v in column j
Frequency(t, j, v) ==
    Cardinality({i \in 1..Len(t.rows) : t.rows[i][j] # NULL /\ t.rows[i][j].v = v})

\* Variant of TopValue: the query has no WHERE col IS NOT NULL, so the group
\* of NULLs competes and str(None) is reported when it is the largest
TopValue_WithNulls(t, j, pick) ==
    LET vs == NonNullValues(t, j)
        d == Describe(t)[j].dtype
        best == {v \in vs : \A w \in vs : Frequency(t, j, v) >= Frequency(t, j, w)}
    IN IF \A v \in vs : CountNull(t, j) > Frequency(t, j, v)
       THEN NULL.v
       ELSE IF pick = "low"
       THEN CHOOSE v \in best : \A w \in best : Ord(d, v) <= Ord(d, w)
       ELSE CHOOSE v \in best : \A w \in best : Ord(d, v) >= Ord(d, w)

\* GROUP BY col ORDER BY freq DESC LIMIT 1 over the non-null values: the
\* row the engine returns first; on a tie the engine's order decides (pick)
TopValue(t, j, pick) ==
    LET vs == NonNullValues(t, j)
        d == Describe(t)[j].dtype
        best == {v \in vs : \A w \in vs : Frequency(t, j, v) >= Frequency(t, j, w)}
    IN IF pick = "low"
       THEN CHOOSE v \in best : \A w \in best : Ord(d, v) <= Ord(d, w)
       ELSE CHOOSE v \in best : \A w \in best : Ord(d, v) >= Ord(d, w)

\* ColumnStatistics(column_name, dtype, count, unique_count), other fields None
BaseStats(t, j) ==
    [column_name |-> Describe(t)[j].name,
     dtype |-> Describe(t)[j].dtype,
     count |-> CountRows(t),
     unique_count |-> Cardinality(NonNullValues(t, j)),
     mean |-> None, std |-> None, min |-> None, max |-> None,
     median |-> None, q25 |-> None, q75 |-> None,
     top_value |-> None, top_frequency |-> NoneInt]

\* The numeric summary casts the column with ::DOUBLE; the engine has that
\* cast for the numeric types only, for any other type the query raises
NumericFamilies == {"integer", "float", "decimal"}
CastsToDouble(dtype) == TypeOf(dtype).family \in NumericFamilies

\* The statistics of column j.  f is the optional query of this column that
\* raises: 0 none, 1 the numeric summary or the most-frequent-value query,
\* 2 the date/time MIN/MAX query.  Both try blocks end in except: pass.
ColumnStats(t, j, f, pick) ==
    LET b == BaseStats(t, j)
        d == Describe(t)[j].dtype
    IN
    IF IsNumeric(d)
    THEN IF f = 1 \/ ~CastsToDouble(d) THEN b
         ELSE [b EXCEPT !.mean = DoubleAggregate(t, j),
                        !.std = DoubleAggregate(t, j),
                        !.min = MinText(t, j), !.max = MaxText(t, j),
                        !.median = DoubleAggregate(t, j),
                        !.q25 = DoubleAggregate(t, j),
                        !.q75 = DoubleAggregate(t, j)]
    ELSE IF f = 1 THEN b
         ELSE LET top == IF NonNullValues(t, j) = {} THEN b
                         ELSE [b EXCEPT !.top_value = TopValue(t, j, pick),
                                        !.top_frequency =
                                            Frequency(t, j, TopValue(t, j, pick))]
              IN IF IsTemporal(d) /\ f # 2
                 THEN [top EXCEPT !.min = MinText(t, j), !.max = MaxText(t, j)]
                 ELSE top

\* Variant of GetStatistics: the entry of a column whose optional query
\* raised is not appended
GetStatistics_DropFailed(t, fail, pick) ==
    LET ok == {j \in 1..Len(Describe(t)) : fail[j] = 0}
        idx == [k \in 1..Cardinality(ok) |->
                  CHOOSE j \in ok : Cardinality({i \in ok : i < j}) = k - 1]
    IN [columns |-> [k \in 1..Cardinality(ok) |->
                       ColumnStats(t, idx[k], 0, pick)]]

\* One entry per column of DESCRIBE, in that order
GetStatistics(t, fail, pick) ==
    [columns |-> [j \in 1..Len(Describe(t)) |->
                    ColumnStats(t, j, fail[j], pick)]]

\* ------------------------------------------------------- get_null_analysis
\* round(x) of the fraction num/den to an integer, ties to the even
\* neighbour (Python's round)
RoundHalfEven(num, den) ==
    LET q == num \div den
        rem == num % den
    IN IF 2 * rem < den THEN q
       ELSE IF 2 * rem > den THEN q + 1
       ELSE IF q % 2 = 0 THEN q ELSE q + 1

\* Variant of Percentage: the ratio is not scaled to a percentage
Percentage_Fraction(part, whole) ==
    IF whole > 0 THEN RoundHalfEven(part * 100, whole) ELSE 0

\* round(part / whole * 100, 2) if whole > 0 else 0, in hundredths of a
\* percent (4000 is 40.0)
Percentage(part, whole) ==
    IF whole > 0 THEN RoundHalfEven(part * 10000, whole) ELSE 0

RECURSIVE SumSeq(_)
SumSeq(q) == IF q = << >> THEN 0 ELSE q[1] + SumSeq(Tail(q))

\* Variant of NullColumn: non_null_count counts the distinct values
NullColumn_Distinct(t, j) ==
    [column_name |-> Describe(t)[j].name,
     null_count |-> CountNull(t, j),
     null_percentage |-> Percentage(CountNull(t, j), CountRows(t)),
     non_null_count |-> Cardinality(NonNullValues(t, j))]

\* NullColumn(...) of column j
NullColumn(t, j) ==
    [column_name |-> Describe(t)[j].name,
     null_count |-> CountNull(t, j),
     null_percentage |-> Percentage(CountNull(t, j), CountRows(t)),
     non_null_count |-> CountRows(t) - CountNull(t, j)]

\* Variant of GetNullAnalysis: total_cells counts the non-null cells only
GetNullAnalysis_NonNullCells(t) ==
    LET cols == [j \in 1..Len(Describe(t)) |-> NullColumn(t, j)]
        total_nulls == SumSeq([j \in 1..Len(cols) |-> cols[j].null_count])
        total_cells == CountRows(t) * Len(Describe(t)) - total_nulls
    IN [total_cells |-> total_cells,
        total_nulls |-> total_nulls,
        total_null_percentage |-> Percentage(total_nulls, total_cells),
        columns |-> cols]

GetNullAnalysis(t) ==
    LET cols == [j \in 1..Len(Describe(t)) |-> NullColumn(t, j)]
        total_nulls == SumSeq([j \in 1..Len(cols) |-> cols[j].null_count])
        total_cells == CountRows(t) * Len(Describe(t))
    IN [total_cells |-> total_cells,
        total_nulls |-> total_nulls,
        total_null_percentage |-> Percentage(total_nulls, total_cells),
        columns |-> cols]

\* ---------------------------------------------------------- data-level run
\* An AnalysisChunk with its payload
PayloadChunk(k, d) == [type |-> DataChunk(k).type, data |-> d, message |-> None]

\* One run of analyze_stream on an openable file whose queries do not fail,
\* read to the end; the pipeline-level variables stay as constructed.
DataInit ==
    /\ file = [r \in Requests |-> [kind |-> "flat", openable |-> TRUE, tables |-> << >>]]
    /\ phase = [r \in Requests |-> "created"]
    /\ stage = [r \in Requests |-> 0]
    /\ con = [r \in Requests |-> NoCon]
    /\ table_name = [r \in Requests |-> "data"]
    /\ handle = [h \in HandleIds |-> "unused"]
    /\ closes = [h \in HandleIds |-> 0]
    /\ stream = [r \in Requests |-> << >>]
    /\ consumer = [r \in Requests |-> "reading"]
    /\ loop = Idle
    /\ raised = [r \in Requests |-> None]
    /\ failedStage = [r \in Requests |-> -1]
    /\ returned = [r \in Requests |-> {}]
    /\ calls = [r \in Requests |-> 0]
    /\ table \in Tables
    /\ out = << >>
    /\ dstage = 0
    /\ engine = NoEngine
    /\ prev = NoRun

RunOverview ==
    /\ dstage = 0
    /\ out' = Append(out, PayloadChunk(1, GetOverview(table)))
    /\ dstage' = 1
    /\ UNCHANGED <<vars, calls, table, engine, prev>>

RunSchema ==
    /\ dstage = 1
    /\ out' = Append(out, PayloadChunk(2, GetSchema(table)))
    /\ dstage' = 2
    /\ UNCHANGED <<vars, calls, table, engine, prev>>

RunSample ==
    /\ dstage = 2
    /\ out' = Append(out, PayloadChunk(3, GetSampleData(table, SampleLimit)))
    /\ dstage' = 3
    /\ UNCHANGED <<vars, calls, table, engine, prev>>

\* get_statistics: which optional queries raise, and the engine's order on
\* ties, are the engine's choice
RunStatistics ==
    /\ dstage = 3
    /\ \E fail \in [1..Len(Describe(table)) -> 0..2], pick \in {"low", "high"} :
         /\ engine' = [fail |-> fail, pick |-> pick]
         /\ out' = Append(out, PayloadChunk(4, GetStatistics(table, fail, pick)))
    /\ dstage' = 4
    /\ UNCHANGED <<vars, calls, table, prev>>

RunNulls ==
    /\ dstage = 4
    /\ out' = Append(out, PayloadChunk(5, GetNullAnalysis(table)))
    /\ dstage' = 5
    /\ UNCHANGED <<vars, calls, table, engine, prev>>

RunComplete ==
    /\ dstage = 5
    /\ out' = Append(out, [type |-> CompleteChunk.type, data |-> None,
                           message |-> CompleteChunk.message])
    /\ dstage' = 6
    /\ UNCHANGED <<vars, calls, table, engine, prev>>

DataNext ==
    \/ RunOverview
    \/ RunSchema
    \/ RunSample
    \/ RunStatistics
    \/ RunNulls
    \/ RunComplete

DataSpec == DataInit /\ [][DataNext]_allvars

\* ------------------------------------------------- payload of a run so far
Emitted(ty) == \E i \in 1..Len(out) : out[i].type = ty
Payload(ty) == (CHOOSE c \in {out[i] : i \in 1..Len(out)} : c.type = ty).data
Names(entries) == [j \in 1..Len(entries) |-> entries[j].column_name]

\* C12: in a run that emitted the overview and the nulls chunk, for every
\* column entry of the nulls chunk non_null_count + null_count is the
\* row_count of the overview chunk, and non_null_count is not negative.
C12_NullCountsAddUp ==
    (Emitted("overview") /\ Emitted("nulls")) =>
        \A j \in 1..Len(Payload("nulls").columns) :
            LET e == Payload("nulls").columns[j] IN
            /\ e.non_null_count + e.null_count = Payload("overview").row_count
            /\ e.non_null_count >= 0
            /\ e.null_count = CountNull(table, j)

C12_Witness ==
    /\ Emitted("overview") /\ Emitted("nulls")
    /\ Payload("overview").row_count >= 3
    /\ \E j \in 1..Len(Payload("nulls").columns) :
         /\ Payload("nulls").columns[j].null_count = 1
         /\ Payload("nulls").columns[j].non_null_count = 2
         /\ Cardinality(NonNullValues(table, j)) = 1

\* C13: in a run that emitted a nulls chunk, total_cells is
\* overview.row_count * overview.column_count and total_nulls is the sum of
\* null_count over the column entries of the same chunk.
C13_Totals ==
    Emitted("nulls") =>
        LET n == Payload("nulls") IN
        /\ n.total_cells =
               Payload("overview").row_count * Payload("overview").column_count
        /\ n.total_nulls =
               SumSeq([j \in 1..Len(n.columns) |-> n.columns[j].null_count])
        /\ n.total_nulls =
               Cardinality({p \in (1..Len(table.rows)) \X (1..Len(table.cols)) :
                               table.rows[p[1]][p[2]] = NULL})

C13_Witness ==
    /\ Emitted("nulls")
    /\ Payload("nulls").total_cells = 4
    /\ Payload("nulls").total_nulls = 3
    /\ Len(Payload("nulls").columns) = 2

\* p (in hundredths of a percent) is part / whole * 100 at two decimals
IsPercentOf(p, part, whole) ==
    /\ p \in 0..10000
    /\ 2 * (p * whole - part * 10000) <= whole
    /\ 2 * (part * 10000 - p * whole) <= whole

\* C14: get_null_analysis has a result for every table (no division by
\* zero): with zero rows, and for the total also with zero columns, every
\* percentage is 0; otherwise every null_percentage and the
\* total_null_percentage is the ratio times 100 (at the two decimals the
\* field keeps) and lies between 0 and 100.
C14_Percentages ==
    /\ dstage >= NumStages => Emitted("nulls")
    /\ Emitted("nulls") =>
        LET n == Payload("nulls")
            rows == CountRows(table)
        IN
        /\ \A j \in 1..Len(n.columns) :
              IF rows = 0 THEN n.columns[j].null_percentage = 0
              ELSE IsPercentOf(n.columns[j].null_percentage,
                               n.columns[j].null_count, rows)
        /\ IF rows = 0 \/ Len(table.cols) = 0
           THEN n.total_null_percentage = 0
           ELSE IsPercentOf(n.total_null_percentage, n.total_nulls,
                            rows * Len(table.cols))

C14_Witness ==
    \/ /\ Emitted("nulls") /\ CountRows(table) = 0 /\ Len(table.cols) = 2
       /\ Payload("nulls").total_null_percentage = 0
       /\ Payload("nulls").columns[1].null_percentage = 0
    \/ /\ Emitted("nulls") /\ CountRows(table) = 3
       /\ Payload("nulls").columns[1].null_percentage = 3333

\* C15: within one run every stage reports the same columns in the same
\* order: overview.column_count is the number of schema columns, and
\* sample.columns and the column_name sequences of the statistics and the
\* nulls chunk are the sequence of schema column names.
C15_SameColumns ==
    Emitted("schema") =>
        LET names == [j \in 1..Len(Payload("schema").columns) |->
                        Payload("schema").columns[j].name]
        IN
        /\ names = [j \in 1..Len(table.cols) |-> table.cols[j].name]
        /\ Payload("overview").column_count = Len(names)
        /\ Emitted("sample") => Payload("sample").columns = names
        /\ Emitted("statistics") => Names(Payload("statistics").columns) = names
        /\ Emitted("nulls") => Names(Payload("nulls").columns) = names

C15_Witness ==
    /\ dstage = NumStages + 1
    /\ Len(Payload("schema").columns) = 2
    /\ CountRows(table) = 0
    /\ Names(Payload("nulls").columns) = <<ColName(1), ColName(2)>>

\* C16: in a run that emitted a sample chunk, the number of sample rows is
\* min(10, overview.row_count) and the rows are the leading rows of the
\* working table, in source order.
C16_SampleSize ==
    Emitted("sample") =>
        LET rows == Payload("sample").rows
            rc == Payload("overview").row_count
        IN
        /\ Len(rows) = (IF rc < 10 THEN rc ELSE 10)
        /\ \A i \in 1..Len(rows) : \A j \in 1..Len(rows[i]) :
              rows[i][j].v = table.rows[i][j].v

C16_Witness ==
    /\ Emitted("sample")
    /\ Payload("overview").row_count = 11
    /\ Len(Payload("sample").rows) = 10

\* C17 (as stated): a column has the numeric profile exactly when its
\* declared type is of the integer, floating-point or decimal family; a
\* column of any other type has the categorical profile, and among those
\* exactly the date/time types also have min and max.
C17_ProfileByFamily ==
    Emitted("statistics") =>
        \A j \in 1..Len(Payload("statistics").columns) :
            LET e == Payload("statistics").columns[j]
                fam == TypeOf(table.cols[j].dtype).family
            IN
            (engine.fail[j] = 0 /\ NonNullValues(table, j) # {}) =>
                IF fam \in NumericFamilies
                THEN e.mean # None /\ e.min # None /\ e.top_value = None
                ELSE /\ e.top_value # None /\ e.mean = None
                     /\ e.min # None <=> fam = "temporal"

\* C18: when optional queries of get_statistics raise, it still returns one
\* entry per column in source order; an entry whose query raised keeps
\* column_name, dtype, count and unique_count and has the failed fields
\* null; the entries of the other columns are what they are without any
\* failure; the run goes on to the nulls and the complete chunk.
C18_OptionalFailureIsLocal ==
    /\ Emitted("statistics") =>
        LET st == Payload("statistics").columns IN
        /\ Len(st) = Len(table.cols)
        /\ \A j \in 1..Len(st) :
              LET f == engine.fail[j] IN
              /\ st[j].column_name = table.cols[j].name
              /\ st[j].dtype = table.cols[j].dtype
              /\ st[j].count = Len(table.rows)
              /\ st[j].unique_count = Cardinality(NonNullValues(table, j))
              /\ f = 1 =>
                    /\ st[j].mean = None /\ st[j].std = None
                    /\ st[j].median = None /\ st[j].q25 = None
                    /\ st[j].q75 = None
                    /\ st[j].min = None /\ st[j].max = None
                    /\ st[j].top_value = None /\ st[j].top_frequency = NoneInt
              /\ (f = 2 /\ st[j].mean = None) =>
                    st[j].min = None /\ st[j].max = None
              /\ f = 0 =>
                    st[j] = GetStatistics(table, [i \in 1..Len(st) |-> 0],
                                          engine.pick).columns[j]
    /\ dstage = NumStages + 1 => Types(out) = FullSequence

C18_Witness ==
    /\ dstage = NumStages + 1
    /\ Len(table.cols) = 2 /\ Len(table.rows) = 2
    /\ engine.fail = <<1, 0>>
    /\ Payload("statistics").columns[1].unique_count = 2
    /\ Payload("statistics").columns[2].top_frequency = 2

\* C19: get_sample_data converts every cell on its own: a null stays null,
\* an int, float, str or bool value is unchanged, a value of any other kind
\* is replaced by its text; row length and cell positions are preserved.
C19_CellNormalization ==
    Emitted("sample") =>
        LET rows == Payload("sample").rows IN
        \A i \in 1..Len(rows) :
            /\ Len(rows[i]) = Len(table.rows[i])
            /\ \A j \in 1..Len(rows[i]) :
                  LET src == table.rows[i][j] IN
                  IF src = NULL THEN rows[i][j] = NULL
                  ELSE IF src.kind \in {"int", "float", "str", "bool"}
                  THEN rows[i][j] = src
                  ELSE rows[i][j] = [kind |-> "str", v |-> src.v]

C19_Witness ==
    /\ Emitted("sample")
    /\ Len(Payload("sample").rows) = 2
    /\ table.rows[1] = <<Cell(T_INTEGER, 1), Cell(T_DATE, 2)>>
    /\ table.rows[2] = <<NULL, Cell(T_DATE, 1)>>
    /\ Payload("sample").rows[1][2] = [kind |-> "str", v |-> "2024-01-02"]

\* ------------------------------------------ _close_connection called freely
\* The two connection methods of an analyzer called directly, in any order:
\* _setup_connection at most once per analyzer (phase "created" before the
\* call, "suspended" after it, raised or not), _close_connection any number
\* of times up to MaxCloseCalls (counted in calls).
MaxCloseCalls == 3

CallSetup(r) ==
    /\ phase[r] = "created"
    /\ \E showOk \in BOOLEAN :
         LET s == SetupConnection(file[r], showOk)
             h == NewHandle(r)
         IN /\ IF s.opened
               THEN /\ con' = [con EXCEPT ![r] = h]
                    /\ handle' = [handle EXCEPT ![h] = "open"]
               ELSE UNCHANGED <<con, handle>>
            /\ table_name' = [table_name EXCEPT ![r] = s.table]
            /\ raised' = [raised EXCEPT ![r] = s.error]
    /\ phase' = [phase EXCEPT ![r] = "suspended"]
    /\ UNCHANGED <<file, stage, closes, stream, consumer, loop, failedStage,
                   returned, dvars, calls>>

CallClose(r) ==
    /\ calls[r] < MaxCloseCalls
    /\ CloseConnection(r)
    /\ calls' = [calls EXCEPT ![r] = @ + 1]
    /\ UNCHANGED <<file, phase, stage, table_name, stream, consumer, loop,
                   raised, failedStage, returned, dvars>>

CloseNext == \E r \in Requests : CallSetup(r) \/ CallClose(r)

CloseSpec == Init /\ [][CloseNext]_allvars

\* C20: _close_connection can be called any number of times, before any
\* open, after a failed open or after a previous close: the call is always
\* possible (it does not raise), no connection object is ever closed twice,
\* and after every call the analyzer holds no connection and the object it
\* opened is not open.
C20_CloseIdempotent ==
    /\ [](\A h \in HandleIds : closes[h] <= 1)
    /\ [](\A r \in Requests : calls[r] < MaxCloseCalls => ENABLED CallClose(r))
    /\ [][\A r \in Requests :
            calls'[r] > calls[r] =>
                /\ con'[r] = NoCon
                /\ handle'[NewHandle(r)] # "open"
                /\ closes'[NewHandle(r)] =
                       (IF con[r] # NoCon THEN 1 ELSE closes[NewHandle(r)])]_allvars

C20_Witness ==
    \E r, q \in Requests :
        /\ r # q
        /\ phase[r] = "suspended" /\ raised[r] = IOException
        /\ calls[r] >= 3 /\ closes[NewHandle(r)] = 1
        /\ handle[NewHandle(r)] = "closed" /\ con[r] = NoCon
        /\ phase[q] = "created" /\ calls[q] >= 1
        /\ handle[NewHandle(q)] = "unused" /\ con[q] = NoCon

\* --------------------------------------------------- streaming and safety
\* the queries of stage k of request r are running
Running(r, k) == phase[r] = "query" /\ stage[r] = k

\* C23: a stage's chunk is handed to the consumer before the next stage's
\* queries start: while the queries of stage k+1 run, the chunks of stages
\* 1..k have been yielded; queries start only in a generator that was
\* suspended at a yield (or had not started); each step of the generator
\* runs at most one stage and produces at most one chunk, at which it
\* suspends.
C23_ChunkBeforeNextStage ==
    /\ [](\A r \in Requests : \A k \in 1..NumStages :
            Running(r, k) =>
                /\ stream[r] = [i \in 1..(k - 1) |-> DataChunk(i)]
                /\ returned[r] = 1..(k - 1))
    /\ [][\A r \in Requests :
            /\ (phase'[r] = "query" /\ stage'[r] # stage[r]) =>
                  /\ phase[r] \in {"created", "suspended"}
                  /\ stage'[r] = stage[r] + 1
            /\ Len(stream'[r]) <= Len(stream[r]) + 1
            /\ Cardinality(returned'[r]) <= Cardinality(returned[r]) + 1
            /\ stream'[r] # stream[r] => phase'[r] = "suspended"]_vars

C23_Witness ==
    \E r, q \in Requests :
        /\ Running(r, 3) /\ Len(stream[r]) = 2
        /\ stream[r][2] = DataChunk(2)
        /\ phase[q] = "suspended" /\ stage[q] = NumStages
        /\ Len(stream[q]) = NumStages

\* C24: no stage query is issued on an absent or closed connection: while a
\* stage of a request runs, the request holds a connection and it is open;
\* once _close_connection has run in the request (the generator has ended)
\* no stage runs in it again.
C24_QueryOnOpenConnection ==
    /\ [](\A r \in Requests :
            phase[r] = "query" =>
                /\ con[r] # NoCon
                /\ handle[con[r]] = "open"
                /\ closes[con[r]] = 0)
    /\ [][\A r \in Requests :
            (phase[r] = "done" \/ closes[NewHandle(r)] > 0) =>
                /\ phase'[r] # "query"
                /\ stream'[r] = stream[r]
                /\ returned'[r] = returned[r]]_vars

C24_Witness ==
    \E r, q \in Requests :
        /\ phase[r] = "done" /\ closes[NewHandle(r)] = 1
        /\ returned[r] = 1..2 /\ failedStage[r] = 3
        /\ phase[q] = "query" /\ stage[q] = NumStages
        /\ handle[con[q]] = "open"

\* ------------------------------------------------------ most frequent value
\* C22: for a column given the categorical profile whose most-frequent-value
\* query returned, top_value is a non-null value of the column with the
\* highest occurrence count and top_frequency is that count (at most count
\* minus the column's null count); both are null exactly when the column
\* has no non-null value; a null is never reported as the most frequent
\* value.
C22_TopValue ==
    Emitted("statistics") =>
        \A j \in 1..Len(Payload("statistics").columns) :
            LET e == Payload("statistics").columns[j]
                vs == NonNullValues(table, j)
            IN
            (~IsNumeric(table.cols[j].dtype) /\ engine.fail[j] # 1) =>
                /\ e.top_value = None <=> vs = {}
                /\ e.top_frequency = NoneInt <=> vs = {}
                /\ vs # {} =>
                      /\ e.top_value \in vs
                      /\ e.top_value # NULL.v
                      /\ e.top_frequency = Frequency(table, j, e.top_value)
                      /\ \A w \in vs : Frequency(table, j, w) <= e.top_frequency
                      /\ e.top_frequency >= 1
                      /\ e.top_frequency <= e.count - CountNull(table, j)

C22_Witness ==
    /\ Emitted("statistics")
    /\ Len(table.cols) = 1 /\ table.cols[1].dtype = T_VARCHAR
    /\ CountNull(table, 1) = 2 /\ Len(table.rows) = 4
    /\ Payload("statistics").columns[1].top_value = "b"
    /\ Payload("statistics").columns[1].top_frequency = 1
    /\ Frequency(table, 1, "a") = 1

\* ------------------------------------------------- two runs on the same file
\* Variant of Rerun: the chunks are collected in a buffer kept between
\* requests, which the second run appends to
Rerun_SharedBuffer ==
    /\ dstage = NumStages + 1
    /\ prev = NoRun
    /\ prev' = [out |-> out, engine |-> engine]
    /\ out' = out
    /\ dstage' = 0
    /\ engine' = NoEngine
    /\ UNCHANGED <<vars, calls, table>>

\* A second request names the same, unmodified file after the first run has
\* ended: the router builds a new DataAnalyzer, which starts from __init__
\* and opens the file again.  The first run's chunks are kept for comparison.
Rerun ==
    /\ dstage = NumStages + 1
    /\ prev = NoRun
    /\ prev' = [out |-> out, engine |-> engine]
    /\ out' = << >>
    /\ dstage' = 0
    /\ engine' = NoEngine
    /\ UNCHANGED <<vars, calls, table>>

\* get_statistics of the second run: the queries meet the same file, so the
\* ones that raised raise again; only the order among equally frequent
\* values is the engine's to choose anew
RunStatisticsAgain ==
    /\ dstage = 3
    /\ prev # NoRun
    /\ \E pick \in {"low", "high"} :
         /\ engine' = [fail |-> prev.engine.fail, pick |-> pick]
         /\ out' = Append(out, PayloadChunk(4,
                       GetStatistics(table, prev.engine.fail, pick)))
    /\ dstage' = 4
    /\ UNCHANGED <<vars, calls, table, prev>>

RerunNext ==
    \/ RunOverview
    \/ RunSchema
    \/ RunSample
    \/ (prev = NoRun /\ RunStatistics)
    \/ RunStatisticsAgain
    \/ RunNulls
    \/ RunComplete
    \/ Rerun

RerunSpec == DataInit /\ [][RerunNext]_allvars

\* a statistics payload without the choice among equally frequent values
WithoutTopValue(st) ==
    [j \in 1..Len(st.columns) |-> [st.columns[j] EXCEPT !.top_value = None]]

\* chunk c of a run and chunk p of another carry the same result
SameChunk(c, p) ==
    /\ c.type = p.type
    /\ c.message = p.message
    /\ IF c.type = "statistics"
       THEN WithoutTopValue(c.data) = WithoutTopValue(p.data)
       ELSE c.data = p.data

====
